---- MODULE Spec2Model ----
(***************************************************************************)
(* Model of the Data Explorer engine of src/App.tsx: the persisted         *)
(* dataset list, the query pipeline (filter, search, sort), the viewport   *)
(* window, the column layout (reorder, resize), inline cell edits, and the *)
(* busy flag around the AI-service calls.                                   *)
(*                                                                         *)
(* JavaScript values are records [k, n, s]: k is the kind ("num", "nan",   *)
(* "inf", "str", "null", "undef"), n the integer of a number (the sign, 1  *)
(* or -1, of an infinity), s the code points of a string.                  *)
(* typeof v === 'number' is k \in {"num", "nan", "inf"}.                   *)
(* Strings are sequences of code points (digits, letters, space, minus); no    *)
(* string of the model holds a decimal point, an exponent, a sign other    *)
(* than a leading '-', or a hexadecimal prefix, so Number(string) is       *)
(* decimal-integer parsing, with "Infinity" and "-Infinity" read as the    *)
(* infinities.                                                             *)
(***************************************************************************)
EXTENDS Integers, Sequences, FiniteSets, TLC

---------------------------------------------------------------------------
(* JavaScript values *)

Num(i) == [k |-> "num", n |-> i, s |-> << >>]
Str(t) == [k |-> "str", n |-> 0, s |-> t]
NaN == [k |-> "nan", n |-> 0, s |-> << >>]
Infinity == [k |-> "inf", n |-> 1, s |-> << >>]
MinusInfinity == [k |-> "inf", n |-> 0 - 1, s |-> << >>]
Null == [k |-> "null", n |-> 0, s |-> << >>]
Undef == [k |-> "undef", n |-> 0, s |-> << >>]

IsNumberType(v) == v.k \in {"num", "nan", "inf"}

(* code points: ' ' 32, '-' 45, '0'..'9' 48..57, 'A'..'Z' 65..90, 'a'..'z' 97..122 *)
IsDigit(c) == c >= 48 /\ c <= 57
IsUpper(c) == c >= 65 /\ c <= 90

(* string literals used by the conversions *)
sNaN == <<78, 97, 78>>
sNull == <<110, 117, 108, 108>>
sUndefined == <<117, 110, 100, 101, 102, 105, 110, 101, 100>>
sInfinity == <<73, 110, 102, 105, 110, 105, 116, 121>>

RECURSIVE Digits(_)
Digits(i) ==
  IF i < 10 THEN <<48 + i>> ELSE Digits(i \div 10) \o <<48 + (i % 10)>>

(* Number.prototype.toString for an integer *)
NumberToString(i) == IF i < 0 THEN <<45>> \o Digits(-i) ELSE Digits(i)

(* String(v) *)
StringOf(v) ==
  CASE v.k = "num" -> NumberToString(v.n)
    [] v.k = "nan" -> sNaN
    [] v.k = "inf" -> IF v.n > 0 THEN sInfinity ELSE <<45>> \o sInfinity
    [] v.k = "null" -> sNull
    [] v.k = "undef" -> sUndefined
    [] OTHER -> v.s

RECURSIVE TrimStart(_)
TrimStart(t) ==
  IF t # << >> /\ Head(t) = 32 THEN TrimStart(Tail(t)) ELSE t

RECURSIVE TrimEnd(_)
TrimEnd(t) ==
  IF t # << >> /\ t[Len(t)] = 32 THEN TrimEnd(SubSeq(t, 1, Len(t) - 1)) ELSE t

(* String.prototype.trim *)
Trim(t) == TrimEnd(TrimStart(t))

AllDigits(t) == t # << >> /\ \A i \in 1..Len(t) : IsDigit(t[i])

RECURSIVE DigitsValue(_)
DigitsValue(t) ==
  IF t = << >> THEN 0
  ELSE 10 * DigitsValue(SubSeq(t, 1, Len(t) - 1)) + (t[Len(t)] - 48)

(* Number(string): white space is trimmed, the empty string is 0 *)
StringToNumber(t) ==
  LET u == Trim(t) IN
  IF u = << >> THEN Num(0)
  ELSE IF AllDigits(u) THEN Num(DigitsValue(u))
  ELSE IF Head(u) = 45 /\ AllDigits(Tail(u)) THEN Num(0 - DigitsValue(Tail(u)))
  ELSE IF u = sInfinity THEN Infinity
  ELSE IF u = <<45>> \o sInfinity THEN MinusInfinity
  ELSE NaN

(* Number(v) *)
ToNumber(v) ==
  CASE v.k = "num" -> v
    [] v.k = "nan" -> NaN
    [] v.k = "inf" -> v
    [] v.k = "null" -> Num(0)
    [] v.k = "undef" -> NaN
    [] OTHER -> StringToNumber(v.s)

(* isNaN(Number(v)) *)
IsNaNNumber(v) == ToNumber(v).k = "nan"

(* x - y of two numbers that are not NaN, as its sign carrier: 0 stands for
   0 and for the NaN of Infinity - Infinity *)
NumDiff(x, y) ==
  IF x.k = "num" /\ y.k = "num" THEN x.n - y.n
  ELSE IF x.k = "inf" /\ y.k = "inf" THEN x.n - y.n
  ELSE IF x.k = "inf" THEN x.n
  ELSE 0 - y.n

(* the relational operators on two numbers: false when either is NaN *)
NumGt(x, y) == x.k # "nan" /\ y.k # "nan" /\ NumDiff(x, y) > 0
NumLt(x, y) == x.k # "nan" /\ y.k # "nan" /\ NumDiff(x, y) < 0
NumGe(x, y) == x.k # "nan" /\ y.k # "nan" /\ NumDiff(x, y) >= 0
NumLe(x, y) == x.k # "nan" /\ y.k # "nan" /\ NumDiff(x, y) <= 0

(* String.prototype.toLowerCase *)
ToLower(t) == [i \in 1..Len(t) |-> IF IsUpper(t[i]) THEN t[i] + 32 ELSE t[i]]

(* String.prototype.includes *)
Includes(t, sub) ==
  \E i \in 0..(Len(t) - Len(sub)) : SubSeq(t, i + 1, i + Len(sub)) = sub

(* String.prototype.localeCompare under the root collation: white space,    *)
(* then punctuation, then digits, then letters; letters differ by case only *)
(* at the last level, lower case first.                                     *)
Primary(c) ==
  IF c = 32 THEN 1
  ELSE IF c = 45 THEN 2
  ELSE IF IsDigit(c) THEN 10 + (c - 48)
  ELSE IF IsUpper(c) THEN 100 + (c - 65)
  ELSE IF c >= 97 /\ c <= 122 THEN 100 + (c - 97)
  ELSE 200 + c

Tertiary(c) == IF IsUpper(c) THEN 1 ELSE 0

RECURSIVE LexCompare(_, _)
LexCompare(a, b) ==
  IF a = << >> /\ b = << >> THEN 0
  ELSE IF a = << >> THEN 0 - 1
  ELSE IF b = << >> THEN 1
  ELSE IF Head(a) < Head(b) THEN 0 - 1
  ELSE IF Head(a) > Head(b) THEN 1
  ELSE LexCompare(Tail(a), Tail(b))

localeCompare(a, b) ==
  LET p == LexCompare([i \in 1..Len(a) |-> Primary(a[i])], [i \in 1..Len(b) |-> Primary(b[i])]) IN
  IF p # 0 THEN p
  ELSE LexCompare([i \in 1..Len(a) |-> Tertiary(a[i])], [i \in 1..Len(b) |-> Tertiary(b[i])])

---------------------------------------------------------------------------
(* Bounds of the model *)

MaxDatasets == 2
MaxStoreDatasets == 1
MaxEditDatasets == 1
MaxLayoutDatasets == 2
MaxAIDatasets == 2
MaxWidth == 200
MaxLayoutSteps == 1
MaxWindowDatasets == 1
MaxPipelineDatasets == 2
MaxFilters == 1
MaxInFlight == 2
MaxMessages == 1
MaxListeners == 2
MaxQueue == 2
MaxReads == 1
MaxScrollRows == 8
MaxWidthSteps == 2
MaxCleaningDatasets == 2
MaxFilterDatasets == 2
MaxSortDatasets == 1
MaxSuggestions == 4
MaxCommitDatasets == 2
MaxDrillFilters == 2
MaxDrillDatasets == 1
MaxSearchDatasets == 1
MaxFrameDatasets == 2
MaxResizeDatasets == 1
MaxResizeSteps == 2
MaxScrollDatasets == 1
MaxScrollSteps == 2

(* Program constants *)
ROW_HEIGHT == 65
BUFFER_COUNT == 5
DefaultWidth == 150
MinWidth == 80

---------------------------------------------------------------------------
(* Rows and datasets *)

(* row[col]: undefined when the row has no such key *)
Get(row, col) == IF col \in DOMAIN row THEN row[col] ELSE Undef

(* { ...row, [col]: v } *)
SetCell(row, col, v) ==
  [c \in (DOMAIN row) \cup {col} |-> IF c = col THEN v ELSE row[c]]

Range(q) == {q[i] : i \in 1..Len(q)}

(* datasets.find(d => d.id === activeDatasetId): the index of the first
   dataset with that id, 0 when there is none *)
FindDataset(dsList, id) ==
  IF \E i \in 1..Len(dsList) : dsList[i].id = id
  THEN CHOOSE i \in 1..Len(dsList) :
         dsList[i].id = id /\ \A j \in 1..(i - 1) : dsList[j].id # id
  ELSE 0

HasActive(dsList, id) == FindDataset(dsList, id) # 0
ActiveOf(dsList, id) == dsList[FindDataset(dsList, id)]

(* one cell of an imported line: a numeric token becomes a number, any other
   token (the empty one too) stays a string, a missing token is undefined *)
ParseCell(vals, i) ==
  IF i > Len(vals) THEN Undef
  ELSE LET val == Trim(vals[i]) IN
       IF IsNaNNumber(Str(val)) \/ val = << >> THEN Str(val) ELSE ToNumber(Str(val))

(* the rows of an imported file: one object per line, keyed by the headers *)
ParseRows(file) ==
  [l \in 1..Len(file.lines) |->
     [h \in Range(file.headers) |->
        ParseCell(file.lines[l],
                  CHOOSE i \in 1..Len(file.headers) :
                    file.headers[i] = h /\ \A j \in (i + 1)..Len(file.headers) : file.headers[j] # h)]]

(* JSON.stringify of a row: keys holding undefined are left out, NaN and the
   infinities are null.  The keys of the rows of one dataset are in one
   order (the header order of the import, which edits keep), so two rows
   give the same text exactly when they give the same record here. *)
JsonRow(row) ==
  [c \in {d \in DOMAIN row : row[d].k # "undef"} |->
     IF row[c].k \in {"nan", "inf"} THEN Null ELSE row[c]]

JsonDatasets(dsList) ==
  [i \in 1..Len(dsList) |->
     [id |-> dsList[i].id, columns |-> dsList[i].columns,
      rows |-> [r \in 1..Len(dsList[i].rows) |-> JsonRow(dsList[i].rows[r])]]]

(* localStorage items: [kind, value]; kind "missing" is getItem() = null,
   "corrupt" a text JSON.parse rejects, "json" a text that parses to value *)
MissingItem == [kind |-> "missing", value |-> << >>]
CorruptItem == [kind |-> "corrupt", value |-> << >>]
JsonItem(v) == [kind |-> "json", value |-> v]

(* JSON.parse(localStorage.getItem(key) || '[]'): ok is FALSE when it throws *)
Rehydrate(item) ==
  CASE item.kind = "missing" -> [ok |-> TRUE, value |-> << >>]
    [] item.kind = "corrupt" -> [ok |-> FALSE, value |-> << >>]
    [] OTHER -> [ok |-> TRUE, value |-> item.value]

---------------------------------------------------------------------------
(* Query pipeline: processedRows.  A view is a sequence of Row Store
   positions (1-based): the references to the row objects it holds. *)

(* one filter on one row *)
FilterPass(row, f) ==
  LET val == Get(row, f.column) IN
  CASE f.operator = "equals" -> StringOf(val) = StringOf(f.value)
    [] f.operator = "contains" ->
         Includes(ToLower(StringOf(val)), ToLower(StringOf(f.value)))
    [] f.operator = "gt" -> NumGt(ToNumber(val), ToNumber(f.value))
    [] f.operator = "lt" -> NumLt(ToNumber(val), ToNumber(f.value))
    [] f.operator = "between" ->
         /\ NumGe(ToNumber(val), ToNumber(f.value))
         /\ NumLe(ToNumber(val), ToNumber(f.valueEnd))
    [] OTHER -> TRUE

(* the filter list read with some() in place of every() *)
PassesAny(row, filters) == \E i \in 1..Len(filters) : FilterPass(row, filters[i])

(* activeFilters.every(...) *)
PassesAll(row, filters) == \A i \in 1..Len(filters) : FilterPass(row, filters[i])

(* Object.values(row).some(val => String(val).toLowerCase().includes(q)) *)
SearchPass(row, q) ==
  \E c \in DOMAIN row : Includes(ToLower(StringOf(row[c])), q)

Positions(rows) == [i \in 1..Len(rows) |-> i]

FilterStage(rows, view, filters) ==
  IF Len(filters) > 0
  THEN LET Keep(i) == PassesAll(rows[i], filters) IN SelectSeq(view, Keep)
  ELSE view

(* a search stage that looks through every row of the dataset *)
SearchStageAll(rows, view, searchText) ==
  IF searchText # << >>
  THEN LET Keep(i) == SearchPass(rows[i], ToLower(searchText))
       IN SelectSeq(Positions(rows), Keep)
  ELSE view

SearchStage(rows, view, searchText) ==
  IF searchText # << >>
  THEN LET Keep(i) == SearchPass(rows[i], ToLower(searchText)) IN SelectSeq(view, Keep)
  ELSE view

(* the comparator handed to rows.sort; a NaN result counts as 0 *)
Comparator(a, b, sort) ==
  LET valA == Get(a, sort.key)
      valB == Get(b, sort.key)
  IN IF IsNumberType(valA) /\ IsNumberType(valB)
     THEN IF valA.k = "nan" \/ valB.k = "nan" THEN 0
          ELSE IF sort.direction = "asc" THEN NumDiff(valA, valB) ELSE NumDiff(valB, valA)
     ELSE IF sort.direction = "asc"
          THEN localeCompare(StringOf(valA), StringOf(valB))
          ELSE localeCompare(StringOf(valB), StringOf(valA))

Sign(x) == IF x < 0 THEN 0 - 1 ELSE IF x > 0 THEN 1 ELSE 0

(* a consistent comparator on the rows of a view, as Array.prototype.sort
   requires it for a defined sort order *)
ConsistentOn(rows, view, sort) ==
  \A i, j, l \in Range(view) :
    LET ab == Sign(Comparator(rows[i], rows[j], sort))
        ba == Sign(Comparator(rows[j], rows[i], sort))
        bc == Sign(Comparator(rows[j], rows[l], sort))
        ac == Sign(Comparator(rows[i], rows[l], sort))
    IN /\ Sign(Comparator(rows[i], rows[i], sort)) = 0
       /\ ab = 0 - ba
       /\ (ab = bc) => (ac = ab)

Reorderings(view) ==
  {[i \in 1..Len(view) |-> view[p[i]]] :
     p \in {q \in [1..Len(view) -> 1..Len(view)] :
              \A x, y \in 1..Len(view) : q[x] = q[y] => x = y}}

(* the place of row x in a sorted view: behind every row that does not
   compare greater than it *)
RECURSIVE Inserted(_, _, _, _)
Inserted(rows, out, x, sort) ==
  IF out = << >> THEN <<x>>
  ELSE IF Comparator(rows[Head(out)], rows[x], sort) <= 0
       THEN <<Head(out)>> \o Inserted(rows, Tail(out), x, sort)
       ELSE <<x>> \o out

(* the stable sort of a view by the comparator *)
RECURSIVE StableSort(_, _, _)
StableSort(rows, view, sort) ==
  IF view = << >> THEN << >>
  ELSE Inserted(rows, StableSort(rows, SubSeq(view, 1, Len(view) - 1), sort),
                view[Len(view)], sort)

(* rows.sort(comparator): the stable sort when the comparator is consistent
   on these rows; otherwise the order is implementation-defined, any
   permutation *)
SortOutcomes(rows, view, sort) ==
  IF ConsistentOn(rows, view, sort)
  THEN {StableSort(rows, view, sort)}
  ELSE Reorderings(view)

SortStage(rows, view, sort) ==
  IF sort.key # "" /\ sort.direction # "none"
  THEN SortOutcomes(rows, view, sort)
  ELSE {view}

(* the views processedRows can hold for these inputs *)
Pipeline(rows, filters, searchText, sort) ==
  SortStage(rows, SearchStage(rows, FilterStage(rows, Positions(rows), filters), searchText), sort)

---------------------------------------------------------------------------
(* Viewport window *)

Max(x, y) == IF x > y THEN x ELSE y
Min(x, y) == IF x < y THEN x ELSE y
CeilDiv(x, y) == (x + y - 1) \div y

(* a window that always starts at the first row *)
StartIndexZero(scroll) == 0

StartIndex(scroll) == Max(0, (scroll \div ROW_HEIGHT) - BUFFER_COUNT)
(* an end index rounded down, without the buffer *)
EndIndexFloor(totalCount, scroll, height) ==
  Min(totalCount, (scroll + height) \div ROW_HEIGHT)

EndIndex(totalCount, scroll, height) ==
  Min(totalCount, CeilDiv(scroll + height, ROW_HEIGHT) + BUFFER_COUNT)
(* a translation by the scroll offset itself *)
OffsetTopScroll(scroll) == scroll

OffsetTop(scroll) == StartIndex(scroll) * ROW_HEIGHT
TotalContentHeight(totalCount) == totalCount * ROW_HEIGHT

(* Array.prototype.slice(start, end), 0-based, for 0 <= start and 0 <= end *)
Slice(q, start, end) ==
  LET e == Min(end, Len(q)) IN
  IF start >= e THEN << >> ELSE SubSeq(q, start + 1, e)

(* processedRows.slice(startIndex, endIndex).map((row, i) => ...) *)
VisibleRows(view, scroll, height) ==
  LET startIndex == StartIndex(scroll)
      sl == Slice(view, startIndex, EndIndex(Len(view), scroll, height))
  IN [i \in 1..Len(sl) |-> [data |-> sl[i], originalIndex |-> startIndex + (i - 1)]]

---------------------------------------------------------------------------
(* State *)

VARIABLES
  phase,                (* "boot": page loading; "running"; "crashed": render threw *)
  stored,               (* localStorage: [datasets, sessions], each an item *)
  datasets,             (* sequence of [id, columns, rows] *)
  sessions,             (* sequence of [id, datasetId, messages] *)
  activeDatasetId,      (* 0 is null *)
  activeSessionId,      (* 0 is null *)
  view,
  input,
  status,
  cleaningSuggestions,
  activeFilters,
  searchQuery,
  sortConfig,
  processedRows,        (* the memoized pipeline output *)
  columnWidths,
  columnOrder,
  editingCell,          (* << >> is null, else <<[rowIndex, column]>> *)
  draggedColumn,
  dataTransfer,         (* the 'column' data of the drag in progress, "" when none *)
  scrollTop,
  tableContainerHeight,
  resizeRef,            (* << >> is null, else <<[col, startX, startWidth]>> *)
  listeners,            (* renders whose handleResizeMove/handleResizeEnd pair is on document *)
  render,               (* identity of the current render's handler closures *)
  widthUpdates,         (* setColumnWidths updaters queued by handleResizeMove *)
  inFlight,             (* AI-service calls awaiting their result *)
  reads                 (* FileReader reads awaiting onload *)

storeVars == <<stored, datasets, sessions, activeDatasetId, activeSessionId>>
queryVars == <<activeFilters, searchQuery, sortConfig>>
viewportVars == <<scrollTop, tableContainerHeight>>
orderVars == <<columnOrder, draggedColumn, dataTransfer>>
resizeVars == <<columnWidths, resizeRef, listeners, widthUpdates>>
aiVars == <<status, input, inFlight, cleaningSuggestions, reads>>

vars == <<phase, view, editingCell, processedRows, render, storeVars, queryVars,
          viewportVars, orderVars, resizeVars, aiVars>>

NoSort == [key |-> "", direction |-> "none"]
NoWidths == [c \in {} |-> 0]

(* the rows of the active dataset, none when there is no active dataset *)
ActiveRows(dsList, id) == IF HasActive(dsList, id) THEN ActiveOf(dsList, id).rows ELSE << >>

(* the effect persisting both lists after a render that changed them *)
Persist(dsList, ssList) ==
  [datasets |-> JsonItem(JsonDatasets(dsList)), sessions |-> JsonItem(ssList)]

(* a re-render makes new handler closures; a render whose closures are not
   registered anywhere needs no identity of its own *)
FreshRender(ls) == CHOOSE r \in 0..MaxListeners :
                     r \notin ls /\ \A q \in 0..(r - 1) : q \in ls
Rerender(ls) == render' = IF render \in ls THEN FreshRender(ls) ELSE render

(* the state every useState initialiser but datasets/sessions starts from *)
FreshPage ==
  /\ view' = "chat"
  /\ input' = ""
  /\ status' = "IDLE"
  /\ cleaningSuggestions' = << >>
  /\ activeFilters' = << >>
  /\ searchQuery' = << >>
  /\ sortConfig' = NoSort
  /\ columnWidths' = NoWidths
  /\ editingCell' = << >>
  /\ draggedColumn' = ""
  /\ dataTransfer' = ""
  /\ scrollTop' = 0
  /\ tableContainerHeight' = 0
  /\ resizeRef' = << >>
  /\ listeners' = {}
  /\ render' = 0
  /\ widthUpdates' = << >>
  /\ inFlight' = << >>
  /\ reads' = << >>

(* what localStorage can hold when the page is first opened *)
InitialStorage ==
  [datasets : {MissingItem, CorruptItem, JsonItem(<< >>)},
   sessions : {MissingItem, CorruptItem, JsonItem(<< >>)}]

Init ==
  /\ phase = "boot"
  /\ stored \in InitialStorage
  /\ datasets = << >>
  /\ sessions = << >>
  /\ activeDatasetId = 0
  /\ activeSessionId = 0
  /\ view = "chat"
  /\ input = ""
  /\ status = "IDLE"
  /\ cleaningSuggestions = << >>
  /\ activeFilters = << >>
  /\ searchQuery = << >>
  /\ sortConfig = NoSort
  /\ processedRows = << >>
  /\ columnWidths = NoWidths
  /\ columnOrder = << >>
  /\ editingCell = << >>
  /\ draggedColumn = ""
  /\ dataTransfer = ""
  /\ scrollTop = 0
  /\ tableContainerHeight = 0
  /\ resizeRef = << >>
  /\ listeners = {}
  /\ render = 0
  /\ widthUpdates = << >>
  /\ inFlight = << >>
  /\ reads = << >>

---------------------------------------------------------------------------
(* Start-up *)

(* first render of App and its mount effects: the useState initialisers
   parse both stored lists; a throwing initialiser ends the render *)
Mount ==
  /\ phase = "boot"
  /\ LET d == Rehydrate(stored.datasets)
         s == Rehydrate(stored.sessions)
     IN IF d.ok /\ s.ok
        THEN /\ phase' = "running"
             /\ datasets' = d.value
             /\ sessions' = s.value
             /\ activeDatasetId' = IF Len(d.value) > 0 THEN d.value[1].id ELSE 0
             /\ activeSessionId' = IF Len(s.value) > 0 THEN s.value[1].id ELSE 0
             /\ columnOrder' = IF Len(d.value) > 0 THEN d.value[1].columns ELSE << >>
             /\ processedRows' \in
                  Pipeline(ActiveRows(datasets', activeDatasetId'), << >>, << >>, NoSort)
             /\ stored' = Persist(datasets', sessions')
        ELSE /\ phase' = "crashed"
             /\ UNCHANGED <<storeVars, columnOrder, processedRows>>
  /\ UNCHANGED <<view, editingCell, render, queryVars, viewportVars,
                 draggedColumn, dataTransfer, resizeVars, aiVars>>

(* the user reloads the page: all in-memory state is dropped *)
Reload ==
  /\ phase \in {"running", "crashed"}
  /\ phase' = "boot"
  /\ FreshPage
  /\ datasets' = << >>
  /\ sessions' = << >>
  /\ activeDatasetId' = 0
  /\ activeSessionId' = 0
  /\ columnOrder' = << >>
  /\ processedRows' = << >>
  /\ UNCHANGED stored

---------------------------------------------------------------------------
(* File import *)

(* tokens of the imported texts *)
t10 == <<49, 48>>
t9 == <<57>>
t5 == <<53>>
t1 == <<49>>
t5x == <<53, 120>>
tx == <<120>>
ty == <<121>>
tEmpty == << >>
tInf == sInfinity
tMinusInf == <<45>> \o sInfinity
tSpX == <<32, 32, 120>>

(* a file: its header names and, per data line, the line's tokens; blank is
   a text without any non-blank line *)
FileA == [blank |-> FALSE, headers |-> <<"a", "b">>,
          lines |-> << <<t10, tx>>, <<t5x, tEmpty>>, <<t9>> >>]
FileB == [blank |-> FALSE, headers |-> <<"b", "c", "d">>,
          lines |-> << <<tx, t1, t5>> >>]
FileC == [blank |-> FALSE, headers |-> <<"a">>,
          lines |-> << <<t10>>, <<tx>>, <<t9>> >>]
FileL == [blank |-> FALSE, headers |-> <<"a">>,
          lines |-> << <<tx>>, <<tx>>, <<ty>>, <<tx>>, <<tx>>, <<tx>>, <<tx>>, <<tx>>,
                       <<tx>>, <<tx>>, <<tx>>, <<tx>>, <<tx>>, <<tx>> >>]
FileS == [blank |-> FALSE, headers |-> <<"a", "b">>,
          lines |-> << <<t10, tx>>, <<t5x, tx>>, <<t9, ty>>, <<t10, ty>> >>]
FileD == [blank |-> FALSE, headers |-> <<"a">>,
          lines |-> << <<tInf>>, <<tMinusInf>>, <<tx>>, <<tx>> >>]
BlankFile == [blank |-> TRUE, headers |-> << >>, lines |-> << >>]

(* the change event of the file input: the read starts; reader.onload keeps
   the handleGetCleaningSuggestions of this render, and with it this
   render's activeDataset (its id here, 0 when there is none) *)
handleFileUpload(file) ==
  /\ phase = "running"
  /\ Len(reads) < MaxReads
  /\ reads' = Append(reads, [file |-> file,
                             closureDataset |-> IF HasActive(datasets, activeDatasetId)
                                                THEN activeDatasetId ELSE 0])
  /\ UNCHANGED <<phase, view, editingCell, processedRows, render, storeVars, queryVars,
                 viewportVars, orderVars, resizeVars, status, input, inFlight,
                 cleaningSuggestions>>

(* handleGetCleaningSuggestions as called with activeDataset = the dataset
   of id ds (0: none): the status and the calls in flight it leaves *)
SuggestionsStatus(ds, st) == IF ds = 0 THEN st ELSE "LOADING"
SuggestionsCalls(ds, calls) ==
  IF ds = 0 THEN calls
  ELSE Append(calls, [kind |-> "suggest", dataset |-> ds, session |-> 0])

(* reader.onload *)
readerOnload ==
  /\ phase = "running"
  /\ Len(reads) > 0
  /\ reads' = Tail(reads)
  /\ LET r == Head(reads) IN
     IF r.file.blank
     THEN (* lines[0] is undefined: the catch shows a toast *)
          UNCHANGED <<processedRows, render, storeVars, columnOrder, status, inFlight>>
     ELSE /\ Len(datasets) < MaxDatasets
          /\ Len(SuggestionsCalls(r.closureDataset, inFlight)) <= MaxInFlight
          /\ LET newDs == [id |-> Len(datasets) + 1, columns |-> r.file.headers,
                           rows |-> ParseRows(r.file)]
                 newSess == [id |-> Len(sessions) + 1, datasetId |-> newDs.id, messages |-> 1]
             IN /\ datasets' = Append(datasets, newDs)
                /\ sessions' = <<newSess>> \o sessions
                /\ activeDatasetId' = newDs.id
                /\ activeSessionId' = newSess.id
                /\ columnOrder' = newDs.columns
          /\ status' = SuggestionsStatus(r.closureDataset, status)
          /\ inFlight' = SuggestionsCalls(r.closureDataset, inFlight)
          /\ stored' = Persist(datasets', sessions')
          /\ processedRows' \in Pipeline(ActiveRows(datasets', activeDatasetId'),
                                         activeFilters, searchQuery, sortConfig)
          /\ Rerender(listeners)
  /\ UNCHANGED <<phase, view, editingCell, queryVars, viewportVars, draggedColumn,
                 dataTransfer, resizeVars, input, cleaningSuggestions>>

---------------------------------------------------------------------------
(* View switch, filters, search, sort *)

Memo == processedRows' \in Pipeline(ActiveRows(datasets', activeDatasetId'),
                                    activeFilters', searchQuery', sortConfig')

setView(v) ==
  /\ phase = "running"
  /\ v # view
  /\ view' = v
  /\ Rerender(listeners)
  /\ UNCHANGED <<phase, editingCell, processedRows, storeVars, queryVars, viewportVars,
                 orderVars, resizeVars, aiVars>>

(* Math.random ids: one no filter in the list carries *)
FreshFilterId(filters) ==
  CHOOSE n \in 1..(Len(filters) + 1) : \A i \in 1..Len(filters) : filters[i].id # n

(* the columns the filter builder offers; '' when there is no dataset *)
BuilderColumns ==
  IF HasActive(datasets, activeDatasetId)
  THEN Range(ActiveOf(datasets, activeDatasetId).columns)
  ELSE {""}

(* "Apply Filter" of the filter builder *)
addNewFilter(column, operator, val1, val2) ==
  /\ phase = "running"
  /\ view = "data"
  /\ column \in BuilderColumns
  /\ Len(activeFilters) < MaxFilters
  /\ activeFilters' = Append(activeFilters,
       [id |-> FreshFilterId(activeFilters), column |-> column, operator |-> operator,
        value |-> Str(val1), valueEnd |-> Str(val2)])
  /\ UNCHANGED <<searchQuery, sortConfig>>
  /\ UNCHANGED storeVars
  /\ Memo
  /\ Rerender(listeners)
  /\ UNCHANGED <<phase, view, editingCell, viewportVars, orderVars, resizeVars, aiVars>>

removeFilter(id) ==
  /\ phase = "running"
  /\ view = "data"
  /\ \E i \in 1..Len(activeFilters) : activeFilters[i].id = id
  /\ LET Keep(f) == f.id # id IN activeFilters' = SelectSeq(activeFilters, Keep)
  /\ UNCHANGED <<searchQuery, sortConfig>>
  /\ UNCHANGED storeVars
  /\ Memo
  /\ Rerender(listeners)
  /\ UNCHANGED <<phase, view, editingCell, viewportVars, orderVars, resizeVars, aiVars>>

clearAllFilters ==
  /\ phase = "running"
  /\ view = "data"
  /\ Len(activeFilters) > 0
  /\ activeFilters' = << >>
  /\ searchQuery' = << >>
  /\ UNCHANGED sortConfig
  /\ UNCHANGED storeVars
  /\ Memo
  /\ Rerender(listeners)
  /\ UNCHANGED <<phase, view, editingCell, viewportVars, orderVars, resizeVars, aiVars>>

setSearchQuery(q) ==
  /\ phase = "running"
  /\ view = "data"
  /\ q # searchQuery
  /\ searchQuery' = q
  /\ UNCHANGED <<activeFilters, sortConfig>>
  /\ UNCHANGED storeVars
  /\ Memo
  /\ Rerender(listeners)
  /\ UNCHANGED <<phase, view, editingCell, viewportVars, orderVars, resizeVars, aiVars>>

(* a drill-down that sets the filter list to the one new filter *)
onDrillDownReplaces(column, value) ==
  /\ phase = "running"
  /\ view \in {"chat", "dashboard"}
  /\ activeSessionId # 0
  /\ activeFilters' = <<[id |-> FreshFilterId(activeFilters), column |-> column,
                         operator |-> "equals", value |-> value, valueEnd |-> Undef]>>
  /\ view' = "data"
  /\ UNCHANGED <<searchQuery, sortConfig>>
  /\ UNCHANGED storeVars
  /\ Memo
  /\ Rerender(listeners)
  /\ UNCHANGED <<phase, editingCell, viewportVars, orderVars, resizeVars, aiVars>>

(* a click on a chart of the chat or the dashboard *)
onDrillDown(column, value) ==
  /\ phase = "running"
  /\ view \in {"chat", "dashboard"}
  /\ activeSessionId # 0
  /\ Len(activeFilters) < MaxDrillFilters
  /\ activeFilters' = Append(activeFilters,
       [id |-> FreshFilterId(activeFilters), column |-> column, operator |-> "equals",
        value |-> value, valueEnd |-> Undef])
  /\ view' = "data"
  /\ UNCHANGED <<searchQuery, sortConfig>>
  /\ UNCHANGED storeVars
  /\ Memo
  /\ Rerender(listeners)
  /\ UNCHANGED <<phase, editingCell, viewportVars, orderVars, resizeVars, aiVars>>

(* a sort click that only toggles between asc and desc *)
NextSortToggle(prev, key) ==
  IF prev.key = key /\ prev.direction = "asc"
  THEN [key |-> key, direction |-> "desc"]
  ELSE [key |-> key, direction |-> "asc"]

(* the next sort configuration for a click on column key *)
NextSort(prev, key) ==
  IF prev.key = key
  THEN IF prev.direction = "asc" THEN [key |-> key, direction |-> "desc"]
       ELSE IF prev.direction = "desc" THEN [key |-> key, direction |-> "none"]
       ELSE [key |-> key, direction |-> "asc"]
  ELSE [key |-> key, direction |-> "asc"]

handleSort(key) ==
  /\ phase = "running"
  /\ view = "data"
  /\ key \in Range(columnOrder)
  /\ sortConfig' = NextSort(sortConfig, key)
  /\ UNCHANGED <<activeFilters, searchQuery>>
  /\ UNCHANGED storeVars
  /\ Memo
  /\ Rerender(listeners)
  /\ UNCHANGED <<phase, view, editingCell, viewportVars, orderVars, resizeVars, aiVars>>

---------------------------------------------------------------------------
(* Scrolling and the container height *)

(* the rows of the grid as rendered *)
Shown == VisibleRows(processedRows, scrollTop, tableContainerHeight)

(* the furthest the container can be scrolled over the rendered spacer *)
MaxScrollTop ==
  Max(0, TotalContentHeight(Len(processedRows)) - tableContainerHeight)

(* a scroll handler whose render runs the pipeline again *)
handleScrollRecomputes(offset) ==
  /\ phase = "running"
  /\ view = "data"
  /\ offset >= 0 /\ offset <= MaxScrollTop
  /\ offset # scrollTop
  /\ scrollTop' = offset
  /\ UNCHANGED tableContainerHeight
  /\ UNCHANGED storeVars
  /\ UNCHANGED queryVars
  /\ Memo
  /\ Rerender(listeners)
  /\ UNCHANGED <<phase, view, editingCell, orderVars, resizeVars, aiVars>>

handleScroll(offset) ==
  /\ phase = "running"
  /\ view = "data"
  /\ offset >= 0 /\ offset <= MaxScrollTop
  /\ offset # scrollTop
  /\ scrollTop' = offset
  /\ UNCHANGED tableContainerHeight
  /\ Rerender(listeners)
  /\ UNCHANGED <<phase, view, editingCell, processedRows, storeVars, queryVars,
                 orderVars, resizeVars, aiVars>>

(* the ResizeObserver callback *)
setTableContainerHeight(height) ==
  /\ phase = "running"
  /\ view = "data"
  /\ height # tableContainerHeight
  /\ tableContainerHeight' = height
  /\ UNCHANGED scrollTop
  /\ Rerender(listeners)
  /\ UNCHANGED <<phase, view, editingCell, processedRows, storeVars, queryVars,
                 orderVars, resizeVars, aiVars>>

---------------------------------------------------------------------------
(* Inline cell edit *)

(* a cell of the grid is on screen: row tag i of the window, column col *)
CellShown(i, col) ==
  /\ view = "data"
  /\ col \in Range(columnOrder)
  /\ \E k \in 1..Len(Shown) : Shown[k].originalIndex = i

(* the row object drawn with tag i *)
ShownRowRef(i) == processedRows[i + 1]

(* onDoubleClick of a cell *)
startEdit(i, col) ==
  /\ phase = "running"
  /\ CellShown(i, col)
  /\ editingCell' = <<[rowIndex |-> i, column |-> col]>>
  /\ Rerender(listeners)
  /\ UNCHANGED <<phase, view, processedRows, storeVars, queryVars, viewportVars,
                 orderVars, resizeVars, aiVars>>

(* an edit that stores what was typed, whatever the cell held *)
EditedRowsRaw(rows, rowIndex, column, value) ==
  [rows EXCEPT ![rowIndex + 1] = SetCell(@, column, value)]

(* an edit that puts the updated row in front of the row it was made from *)
EditedRowsInserted(rows, rowIndex, column, value) ==
  LET originalValue == Get(rows[rowIndex + 1], column)
      typedValue == IF IsNumberType(originalValue) THEN ToNumber(value) ELSE value
  IN SubSeq(rows, 1, rowIndex)
       \o <<SetCell(rows[rowIndex + 1], column, typedValue)>>
       \o SubSeq(rows, rowIndex + 1, Len(rows))

(* the rows handleCellEdit leaves in the dataset it updates *)
EditedRows(rows, rowIndex, column, value) ==
  LET originalValue == Get(rows[rowIndex + 1], column)
      typedValue == IF IsNumberType(originalValue) THEN ToNumber(value) ELSE value
  IN [rows EXCEPT ![rowIndex + 1] = SetCell(@, column, typedValue)]

(* setDatasets(prev => prev.map(...)) of handleCellEdit *)
EditedDatasets(dsList, id, rowIndex, column, value) ==
  [d \in 1..Len(dsList) |->
     IF dsList[d].id # id THEN dsList[d]
     ELSE [dsList[d] EXCEPT !.rows = EditedRows(@, rowIndex, column, value)]]

(* the input of the editing cell is of type number when the drawn value is *)
InputIsNumeric(i, col) ==
  IsNumberType(Get(ActiveRows(datasets, activeDatasetId)[ShownRowRef(i)], col))

(* the value an input element can hold: one of type number holds '' unless
   what was typed is a number *)
InputHolds(i, col, value) ==
  InputIsNumeric(i, col) => (value = << >> \/ ToNumber(Str(value)).k = "num")

(* onBlur, or Enter, of the input of the editing cell *)
handleCellEdit(rowIndex, column, value) ==
  /\ phase = "running"
  /\ editingCell = <<[rowIndex |-> rowIndex, column |-> column]>>
  /\ CellShown(rowIndex, column)
  /\ InputHolds(rowIndex, column, value)
  /\ activeDatasetId # 0
  /\ datasets' = EditedDatasets(datasets, activeDatasetId, rowIndex, column, Str(value))
  /\ editingCell' = << >>
  /\ stored' = Persist(datasets', sessions)
  /\ UNCHANGED <<sessions, activeDatasetId, activeSessionId>>
  /\ UNCHANGED queryVars
  /\ Memo
  /\ Rerender(listeners)
  /\ UNCHANGED <<phase, view, viewportVars, orderVars, resizeVars, aiVars>>

(* an Escape that commits a text of the input on its way out *)
cancelEditCommits ==
  /\ editingCell # << >>
  /\ \E value \in {<<53>>, <<120>>} :
       handleCellEdit(editingCell[1].rowIndex, editingCell[1].column, value)

(* Escape in the input of the editing cell *)
cancelEdit ==
  /\ phase = "running"
  /\ editingCell # << >>
  /\ CellShown(editingCell[1].rowIndex, editingCell[1].column)
  /\ editingCell' = << >>
  /\ Rerender(listeners)
  /\ UNCHANGED <<phase, view, processedRows, storeVars, queryVars, viewportVars,
                 orderVars, resizeVars, aiVars>>

---------------------------------------------------------------------------
(* Column reorder *)

(* Array.prototype.indexOf, 0-based, -1 when absent *)
IndexOf(q, x) ==
  IF \E i \in 1..Len(q) : q[i] = x
  THEN (CHOOSE i \in 1..Len(q) : q[i] = x /\ \A j \in 1..(i - 1) : q[j] # x) - 1
  ELSE 0 - 1

(* where Array.prototype.splice starts for a start argument *)
SpliceStart(q, start) ==
  IF start < 0 THEN Max(Len(q) + start, 0) ELSE Min(start, Len(q))

(* q.splice(start, 1) *)
SpliceRemove(q, start) ==
  LET s == SpliceStart(q, start) IN
  IF s >= Len(q) THEN q ELSE SubSeq(q, 1, s) \o SubSeq(q, s + 2, Len(q))

(* q.splice(start, 0, x) *)
SpliceInsert(q, start, x) ==
  LET s == SpliceStart(q, start) IN
  SubSeq(q, 1, s) \o <<x>> \o SubSeq(q, s + 1, Len(q))

(* the order handleColumnDrop sets for a drop of sourceCol on targetCol *)
DroppedOrder(order, sourceCol, targetCol) ==
  LET sIdx == IndexOf(order, sourceCol)
      tIdx == IndexOf(order, targetCol)
  IN SpliceInsert(SpliceRemove(order, sIdx), tIdx, sourceCol)

handleColumnDragStart(col) ==
  /\ phase = "running"
  /\ view = "data"
  /\ col \in Range(columnOrder)
  /\ draggedColumn' = col
  /\ dataTransfer' = col
  /\ UNCHANGED columnOrder
  /\ Rerender(listeners)
  /\ UNCHANGED <<phase, view, editingCell, processedRows, storeVars, queryVars,
                 viewportVars, resizeVars, aiVars>>

(* the drop ends the drag, whatever the handler does *)
handleColumnDrop(targetCol) ==
  /\ phase = "running"
  /\ view = "data"
  /\ targetCol \in Range(columnOrder)
  /\ dataTransfer' = ""
  /\ LET sourceCol == dataTransfer IN
     IF sourceCol = "" \/ sourceCol = targetCol
     THEN UNCHANGED <<columnOrder, draggedColumn, render>>
     ELSE /\ columnOrder' = DroppedOrder(columnOrder, sourceCol, targetCol)
          /\ draggedColumn' = ""
          /\ Rerender(listeners)
  /\ UNCHANGED <<phase, view, editingCell, processedRows, storeVars, queryVars,
                 viewportVars, resizeVars, aiVars>>

---------------------------------------------------------------------------
(* Column resize *)

(* columnWidths[col] || 150 *)
WidthOf(widths, col) ==
  IF col \in DOMAIN widths /\ widths[col] # 0 THEN widths[col] ELSE DefaultWidth

(* { ...prev, [col]: w } *)
SetWidth(widths, col, w) ==
  [c \in (DOMAIN widths) \cup {col} |-> IF c = col THEN w ELSE widths[c]]

(* mousedown on the resize handle of a column *)
handleResizeStart(col, pageX) ==
  /\ phase = "running"
  /\ view = "data"
  /\ col \in Range(columnOrder)
  /\ Cardinality(listeners \cup {render}) <= MaxListeners
  /\ resizeRef' = <<[col |-> col, startX |-> pageX, startWidth |-> WidthOf(columnWidths, col)]>>
  /\ listeners' = listeners \cup {render}
  /\ UNCHANGED <<columnWidths, widthUpdates>>
  /\ UNCHANGED <<phase, view, editingCell, processedRows, render, storeVars, queryVars,
                 viewportVars, orderVars, aiVars>>

(* the width handleResizeMove computes *)
NewWidth(ref, pageX) == Max(MinWidth, ref.startWidth + (pageX - ref.startX))

(* what the registered handleResizeMove listeners queue for one mousemove *)
RECURSIVE QueuedMoves(_, _)
QueuedMoves(n, w) == IF n = 0 THEN << >> ELSE <<w>> \o QueuedMoves(n - 1, w)

(* a mousemove on document: every registered handleResizeMove runs *)
handleResizeMove(pageX) ==
  /\ listeners # {}
  /\ phase = "running"
  /\ IF resizeRef = << >>
     THEN UNCHANGED widthUpdates
     ELSE /\ Len(widthUpdates) + Cardinality(listeners) <= MaxQueue
          /\ widthUpdates' = widthUpdates \o
               QueuedMoves(Cardinality(listeners), NewWidth(resizeRef[1], pageX))
  /\ UNCHANGED <<columnWidths, resizeRef, listeners>>
  /\ UNCHANGED <<phase, view, editingCell, processedRows, render, storeVars, queryVars,
                 viewportVars, orderVars, aiVars>>

(* the queued updaters applied to prev, each reading resizeRef.current.col *)
RECURSIVE AppliedWidths(_, _, _)
AppliedWidths(widths, updates, col) ==
  IF updates = << >> THEN widths
  ELSE AppliedWidths(SetWidth(widths, col, Head(updates)), Tail(updates), col)

(* React renders with the queued setColumnWidths updaters; an updater that
   finds resizeRef.current null throws, which ends the render *)
flushWidthUpdates ==
  /\ phase = "running"
  /\ widthUpdates # << >>
  /\ widthUpdates' = << >>
  /\ IF resizeRef = << >>
     THEN /\ phase' = "crashed"
          /\ UNCHANGED <<columnWidths, render>>
     ELSE /\ columnWidths' = AppliedWidths(columnWidths, widthUpdates, resizeRef[1].col)
          /\ Rerender(listeners)
          /\ UNCHANGED phase
  /\ UNCHANGED <<resizeRef, listeners>>
  /\ UNCHANGED <<view, editingCell, processedRows, storeVars, queryVars,
                 viewportVars, orderVars, aiVars>>

(* a mouseup on document: every registered handleResizeEnd runs and removes
   the pair of its own render *)
handleResizeEnd ==
  /\ listeners # {}
  /\ resizeRef' = << >>
  /\ listeners' = {}
  /\ UNCHANGED <<columnWidths, widthUpdates>>
  /\ UNCHANGED <<phase, view, editingCell, processedRows, render, storeVars, queryVars,
                 viewportVars, orderVars, aiVars>>

---------------------------------------------------------------------------
(* Chat and the AI-service calls *)

FindSession(ssList, id) ==
  IF \E i \in 1..Len(ssList) : ssList[i].id = id
  THEN CHOOSE i \in 1..Len(ssList) : ssList[i].id = id
  ELSE 0

(* sessions.map(s => s.id === id ? one more message : s) *)
WithMessage(ssList, id) ==
  [i \in 1..Len(ssList) |->
     IF ssList[i].id = id THEN [ssList[i] EXCEPT !.messages = @ + 1] ELSE ssList[i]]

(* the textarea takes input: it is disabled without a dataset and while LOADING *)
setInput(text) ==
  /\ phase = "running"
  /\ view = "chat"
  /\ HasActive(datasets, activeDatasetId)
  /\ status # "LOADING"
  /\ text # input
  /\ input' = text
  /\ Rerender(listeners)
  /\ UNCHANGED <<status, inFlight, cleaningSuggestions, reads>>
  /\ UNCHANGED <<phase, view, editingCell, processedRows, storeVars, queryVars,
                 viewportVars, orderVars, resizeVars>>

(* the chat form lets a message be submitted: Enter in the enabled textarea,
   or the enabled submit button *)
CanSubmit ==
  /\ phase = "running"
  /\ view = "chat"
  /\ status # "LOADING"
  /\ input # ""
  /\ HasActive(datasets, activeDatasetId)

handleSendMessage ==
  /\ CanSubmit
  /\ activeSessionId # 0
  /\ Len(inFlight) < MaxInFlight
  /\ FindSession(sessions, activeSessionId) # 0
  /\ sessions[FindSession(sessions, activeSessionId)].messages + 2 <= 1 + 2 * MaxMessages
  /\ sessions' = WithMessage(sessions, activeSessionId)
  /\ input' = ""
  /\ status' = "LOADING"
  /\ inFlight' = Append(inFlight, [kind |-> "analyze", dataset |-> activeDatasetId,
                                   session |-> activeSessionId])
  /\ stored' = Persist(datasets, sessions')
  /\ Rerender(listeners)
  /\ UNCHANGED <<datasets, activeDatasetId, activeSessionId, cleaningSuggestions, reads>>
  /\ UNCHANGED <<phase, view, editingCell, processedRows, queryVars,
                 viewportVars, orderVars, resizeVars>>

RemoveAt(q, i) == SubSeq(q, 1, i - 1) \o SubSeq(q, i + 1, Len(q))

(* the cleaning suggestions the service returns for a call: each carries the
   dataset the call was made for *)
Suggested(call, answer) ==
  [i \in 1..Len(answer) |->
     [id |-> i, column |-> answer[i].column, actionType |-> answer[i].actionType,
      dataset |-> call.dataset]]

(* the call in flight at position i resolves; answer is the list a
   suggestions call returns *)
aiCallResolves(i, answer) ==
  /\ phase = "running"
  /\ i \in 1..Len(inFlight)
  /\ inFlight' = RemoveAt(inFlight, i)
  /\ status' = "SUCCESS"
  /\ IF inFlight[i].kind = "suggest"
     THEN /\ cleaningSuggestions' = Suggested(inFlight[i], answer)
          /\ UNCHANGED storeVars
     ELSE /\ sessions' = WithMessage(sessions, inFlight[i].session)
          /\ stored' = Persist(datasets, sessions')
          /\ UNCHANGED <<datasets, activeDatasetId, activeSessionId, cleaningSuggestions>>
  /\ Rerender(listeners)
  /\ UNCHANGED <<input, reads>>
  /\ UNCHANGED <<phase, view, editingCell, processedRows, queryVars,
                 viewportVars, orderVars, resizeVars>>

(* the call in flight at position i rejects *)
aiCallRejects(i) ==
  /\ phase = "running"
  /\ i \in 1..Len(inFlight)
  /\ inFlight' = RemoveAt(inFlight, i)
  /\ status' = "ERROR"
  /\ Rerender(listeners)
  /\ UNCHANGED <<input, cleaningSuggestions, reads>>
  /\ UNCHANGED <<phase, view, editingCell, processedRows, storeVars, queryVars,
                 viewportVars, orderVars, resizeVars>>

---------------------------------------------------------------------------
(* Bulk cleaning *)

(* case 'remove_nulls' *)
RemoveNulls(rows, column) ==
  LET Keep(r) == /\ Get(r, column).k \notin {"null", "undef"}
                 /\ Get(r, column) # Str(<< >>)
  IN SelectSeq(rows, Keep)

(* case 'deduplicate': a row stays unless the text JSON.stringify gives for
   it was seen on an earlier row *)
Deduplicate(rows) ==
  LET Keep(i) == \A j \in 1..(i - 1) : JsonRow(rows[j]) # JsonRow(rows[i])
      kept == SelectSeq(Positions(rows), Keep)
  IN [k \in 1..Len(kept) |-> rows[kept[k]]]

(* a trim that takes one blank off each end of a string *)
NormalizeCellOnce(v) ==
  IF v.k # "str" THEN v
  ELSE LET front == IF v.s # << >> /\ Head(v.s) = 32 THEN Tail(v.s) ELSE v.s
           both == IF front # << >> /\ front[Len(front)] = 32
                   THEN SubSeq(front, 1, Len(front) - 1) ELSE front
       IN Str(both)

(* the cell 'normalize' leaves: a string is trimmed *)
NormalizeCell(v) == IF v.k = "str" THEN Str(Trim(v.s)) ELSE v

(* the cell 'convert_types' leaves *)
ConvertCell(v) == IF ~IsNaNNumber(v) /\ v # Str(<< >>) THEN ToNumber(v) ELSE v

(* the rows one cleaning action leaves *)
CleanedRows(rows, actionType, column) ==
  CASE actionType = "remove_nulls" -> RemoveNulls(rows, column)
    [] actionType = "deduplicate" -> Deduplicate(rows)
    [] actionType = "normalize" ->
         [i \in 1..Len(rows) |-> SetCell(rows[i], column, NormalizeCell(Get(rows[i], column)))]
    [] actionType = "convert_types" ->
         [i \in 1..Len(rows) |-> SetCell(rows[i], column, ConvertCell(Get(rows[i], column)))]
    [] OTHER -> rows

(* setDatasets(prev => prev.map(...)) of applyCleaningSuggestion *)
CleanedDatasets(dsList, id, suggestion) ==
  [d \in 1..Len(dsList) |->
     IF dsList[d].id # id THEN dsList[d]
     ELSE [dsList[d] EXCEPT !.rows = CleanedRows(@, suggestion.actionType, suggestion.column)]]

(* the Apply button of suggestion number n of the cleaning modal, which the
   Data Explorer opens *)
applyCleaningSuggestion(n) ==
  /\ phase = "running"
  /\ view = "data"
  /\ n \in 1..Len(cleaningSuggestions)
  /\ activeDatasetId # 0
  /\ LET suggestion == cleaningSuggestions[n]
         Others(s) == s.id # suggestion.id
     IN /\ datasets' = CleanedDatasets(datasets, activeDatasetId, suggestion)
        /\ cleaningSuggestions' = SelectSeq(cleaningSuggestions, Others)
  /\ stored' = Persist(datasets', sessions)
  /\ UNCHANGED <<sessions, activeDatasetId, activeSessionId>>
  /\ UNCHANGED queryVars
  /\ Memo
  /\ Rerender(listeners)
  /\ UNCHANGED <<status, input, inFlight, reads>>
  /\ UNCHANGED <<phase, view, editingCell, viewportVars, orderVars, resizeVars>>

---------------------------------------------------------------------------
(* Specifications.  Spec is the whole application; the others are the
   application under a user who keeps to some of its gestures, with the
   inputs drawn from the sets named here. *)

Views == {"chat", "dashboard", "data"}
Operators == {"equals", "contains", "gt", "lt", "between"}
Columns == {"a", "b", "c", "d"}
Texts == {tEmpty, t5, t9, tx}
XPositions == {n * 50 : n \in 0..MaxWidthSteps}
LayoutXPositions == {n * 50 : n \in 0..MaxLayoutSteps}
ScrollOffsets == {(n * ROW_HEIGHT) \div 2 : n \in 0..(2 * MaxScrollRows)}
Heights == {0, ROW_HEIGHT, 2 * ROW_HEIGHT}
RowTags == 0..MaxScrollRows
Answers == {<< >>, <<[column |-> "a", actionType |-> "remove_nulls"]>>}

Tags == 0..(Len(processedRows) - 1)

(* the persisted lists across page loads *)
NextStore ==
  \/ Mount
  \/ Reload
  \/ \E f \in {FileC, BlankFile} : handleFileUpload(f)
  \/ Len(datasets) < MaxStoreDatasets /\ readerOnload
  \/ \E v \in {"chat", "data"} : setView(v)
  \/ handleSort("a")
  \/ startEdit(0, "a")
  \/ \E value \in {t5, tx} : handleCellEdit(0, "a", value)

SpecStore == Init /\ [][NextStore]_vars

(* the state a page load leaves with an empty stored dataset list *)
InitLoaded ==
  /\ Init
  /\ stored = [datasets |-> JsonItem(<< >>), sessions |-> JsonItem(<< >>)]

(* grid with inline edits *)
NextEdit ==
  \/ Mount
  \/ handleFileUpload(FileC)
  \/ Len(datasets) < MaxEditDatasets /\ readerOnload
  \/ setView("data")
  \/ addNewFilter("a", "equals", t9, tEmpty)
  \/ \E id \in 1..MaxFilters : removeFilter(id)
  \/ handleSort("a")
  \/ \E i \in Tags : startEdit(i, "a")
  \/ \E i \in Tags, value \in {tEmpty, t5, tx} : handleCellEdit(i, "a", value)
  \/ cancelEdit

SpecEdit == InitLoaded /\ [][NextEdit]_vars

(* the filters the user builds in the pipeline specification *)
BuiltFilters ==
  { <<"a", "equals", t9, tEmpty>>,
    <<"a", "contains", tEmpty, tEmpty>>,
    <<"b", "lt", t5, tEmpty>>,
    <<"a", "gt", tEmpty, tEmpty>>,
    <<"a", "between", t5, t9>>,
    <<"a", "between", t5, tx>> }

(* the points of a chart the user clicks *)
ChartPoints == { <<"a", Num(9)>>, <<"zz", Str(tx)>> }

(* filter, search and sort over imported datasets *)
NextPipeline ==
  \/ Mount
  \/ \E f \in {FileA, FileB} : handleFileUpload(f)
  \/ Len(datasets) < MaxPipelineDatasets /\ readerOnload
  \/ \E v \in Views : setView(v)
  \/ \E f \in BuiltFilters : addNewFilter(f[1], f[2], f[3], f[4])
  \/ \E id \in 1..MaxFilters : removeFilter(id)
  \/ clearAllFilters
  \/ \E q \in {tEmpty, tx} : setSearchQuery(q)
  \/ \E pt \in ChartPoints : onDrillDown(pt[1], pt[2])
  \/ \E key \in {"a", "b"} : handleSort(key)

SpecPipeline == InitLoaded /\ [][NextPipeline]_vars

(* scrolling a long dataset while filters change its length *)
NextWindow ==
  \/ Mount
  \/ handleFileUpload(FileL)
  \/ Len(datasets) < MaxWindowDatasets /\ readerOnload
  \/ setView("data")
  \/ addNewFilter("a", "equals", ty, tEmpty)
  \/ \E id \in 1..MaxFilters : removeFilter(id)
  \/ \E offset \in ScrollOffsets : handleScroll(offset)
  \/ \E height \in Heights : setTableContainerHeight(height)

SpecWindow == InitLoaded /\ [][NextWindow]_vars

(* column drags and resizes while datasets are imported *)
NextLayout ==
  \/ Mount
  \/ \E f \in (IF datasets = << >> THEN {FileA} ELSE {FileB}) : handleFileUpload(f)
  \/ Len(datasets) < MaxLayoutDatasets /\ readerOnload
  \/ setView("data")
  \/ \E col \in {"a", "b"} : handleColumnDragStart(col)
  \/ \E col \in {"a", "b", "c"} : handleColumnDrop(col)
  \/ \E pageX \in LayoutXPositions : handleResizeStart("b", pageX)
  \/ \E pageX \in LayoutXPositions :
       /\ IF resizeRef = << >> THEN TRUE
          ELSE NewWidth(resizeRef[1], pageX) <= MaxWidth
       /\ handleResizeMove(pageX)
  \/ flushWidthUpdates
  \/ handleResizeEnd

SpecLayout == InitLoaded /\ [][NextLayout]_vars

(* chat submissions and imports with the AI service answering in any order *)
NextAI ==
  \/ Mount
  \/ handleFileUpload(FileC)
  \/ Len(datasets) < MaxAIDatasets /\ readerOnload
  \/ \E text \in {"", "q"} : setInput(text)
  \/ handleSendMessage
  \/ \E i \in 1..MaxInFlight, answer \in Answers : aiCallResolves(i, answer)
  \/ \E i \in 1..MaxInFlight : aiCallRejects(i)

SpecAI == InitLoaded /\ [][NextAI]_vars

(* filters and search over imported datasets, no sort *)
NextFilters ==
  \/ Mount
  \/ \E f \in {FileA, FileB} : handleFileUpload(f)
  \/ Len(datasets) < MaxFilterDatasets /\ readerOnload
  \/ \E v \in {"chat", "data"} : setView(v)
  \/ \E f \in BuiltFilters : addNewFilter(f[1], f[2], f[3], f[4])
  \/ \E id \in 1..MaxFilters : removeFilter(id)
  \/ clearAllFilters
  \/ \E q \in {tEmpty, tx} : setSearchQuery(q)

SpecFilters == InitLoaded /\ [][NextFilters]_vars

(* header clicks on a dataset whose column a mixes numbers and strings and
   repeats a value, and whose column b holds strings only *)
NextSorting ==
  \/ Mount
  \/ handleFileUpload(FileS)
  \/ Len(datasets) < MaxSortDatasets /\ readerOnload
  \/ \E v \in {"chat", "data"} : setView(v)
  \/ \E q \in {tEmpty, tx, ty} : setSearchQuery(q)
  \/ \E key \in {"a", "b"} : handleSort(key)

SpecSorting == InitLoaded /\ [][NextSorting]_vars

(* the suggestions the service returns in the cleaning specification *)
CleaningAnswer ==
  <<[column |-> "a", actionType |-> "remove_nulls"],
    [column |-> "a", actionType |-> "deduplicate"],
    [column |-> "a", actionType |-> "normalize"],
    [column |-> "a", actionType |-> "convert_types"]>>

(* bulk cleaning of an imported dataset, with edits before and between *)
NextCleaning ==
  \/ Mount
  \/ \E f \in (IF datasets = << >> THEN {FileC} ELSE {FileD}) : handleFileUpload(f)
  \/ Len(datasets) < MaxCleaningDatasets /\ readerOnload
  \/ aiCallResolves(1, CleaningAnswer)
  \/ setView("data")
  \/ \E i \in Tags : startEdit(i, "a")
  \/ \E i \in Tags : handleCellEdit(i, "a", tSpX)
  \/ \E n \in 1..MaxSuggestions : applyCleaningSuggestion(n)

SpecCleaning == InitLoaded /\ [][NextCleaning]_vars

(* inline edits of two datasets, numeric and text cells *)
EditInputs == {tEmpty, t5, tx}
EditTags == Tags \cap {0, 1}

NextCommit ==
  \/ Mount
  \/ \E f \in (CASE Len(datasets) + Len(reads) = 0 -> {FileC}
                  [] Len(datasets) + Len(reads) = 1 -> {FileA}
                  [] OTHER -> {FileB}) : handleFileUpload(f)
  \/ Len(datasets) < MaxCommitDatasets /\ readerOnload
  \/ setView("data")
  \/ \E i \in EditTags, col \in {"a", "b"} : startEdit(i, col)
  \/ \E i \in EditTags, col \in {"a", "b"}, value \in EditInputs :
       handleCellEdit(i, col, value)
  \/ cancelEdit

SpecCommit == InitLoaded /\ [][NextCommit]_vars

(* chart clicks on top of the filters, the search text and the sort of the
   Data Explorer *)
NextDrill ==
  \/ Mount
  \/ handleFileUpload(FileA)
  \/ Len(datasets) < MaxDrillDatasets /\ readerOnload
  \/ \E v \in {"chat", "dashboard", "data"} : setView(v)
  \/ \E f \in {<<"a", "contains", tEmpty, tEmpty>>, <<"b", "lt", t5, tEmpty>>} :
       addNewFilter(f[1], f[2], f[3], f[4])
  \/ \E id \in 1..MaxDrillFilters : removeFilter(id)
  \/ \E q \in {tEmpty, tx} : setSearchQuery(q)
  \/ handleSort("a")
  \/ \E pt \in ChartPoints : onDrillDown(pt[1], pt[2])

SpecDrill == InitLoaded /\ [][NextDrill]_vars

(* search texts in either case over filtered and sorted rows *)
tUpperX == <<88>>
tUpperN == <<78>>

NextSearch ==
  \/ Mount
  \/ handleFileUpload(FileA)
  \/ Len(datasets) < MaxSearchDatasets /\ readerOnload
  \/ setView("data")
  \/ \E f \in {<<"a", "equals", t9, tEmpty>>, <<"b", "lt", t5, tEmpty>>,
               <<"a", "contains", tEmpty, tEmpty>>} :
       addNewFilter(f[1], f[2], f[3], f[4])
  \/ \E id \in 1..MaxFilters : removeFilter(id)
  \/ clearAllFilters
  \/ \E q \in {tEmpty, tx, tUpperX, tUpperN} : setSearchQuery(q)
  \/ handleSort("a")

SpecSearch == InitLoaded /\ [][NextSearch]_vars

(* every gesture of the Data Explorer next to the writers of the Row Store *)
FrameAnswer ==
  <<[column |-> "b", actionType |-> "remove_nulls"],
    [column |-> "a", actionType |-> "normalize"]>>

(* the families of gestures, each idle: no filter, search text or sort is
   set; no layout gesture is under way; the grid is at its top; no cell is
   in edit mode.  The user of NextFrame starts a gesture of one family when
   the other families are idle. *)
QueryIdle == activeFilters = << >> /\ searchQuery = << >> /\ sortConfig = NoSort
LayoutIdle ==
  /\ resizeRef = << >> /\ listeners = {} /\ widthUpdates = << >>
  /\ draggedColumn = "" /\ dataTransfer = ""
ScrollIdle == scrollTop = 0
EditIdle == editingCell = << >>

NextFrame ==
  \/ Mount
  \/ \E f \in (CASE Len(datasets) + Len(reads) = 0 -> {FileC}
                  [] Len(datasets) + Len(reads) = 1 -> {FileA}
                  [] OTHER -> {BlankFile}) :
       QueryIdle /\ LayoutIdle /\ ScrollIdle /\ EditIdle /\ handleFileUpload(f)
  \/ Len(datasets) < MaxFrameDatasets /\ readerOnload
  \/ aiCallResolves(1, FrameAnswer)
  \/ \E v \in {"chat", "data"} :
       LayoutIdle /\ ScrollIdle /\ EditIdle /\ setView(v)
  \/ /\ LayoutIdle /\ ScrollIdle /\ EditIdle /\ activeFilters = << >>
     /\ addNewFilter("a", "contains", tEmpty, tEmpty)
  \/ removeFilter(1)
  \/ \E q \in {tEmpty, tx} : LayoutIdle /\ ScrollIdle /\ EditIdle /\ setSearchQuery(q)
  \/ LayoutIdle /\ ScrollIdle /\ EditIdle /\ handleSort("a")
  \/ \E offset \in {0, ROW_HEIGHT} :
       QueryIdle /\ LayoutIdle /\ EditIdle /\ handleScroll(offset)
  \/ QueryIdle /\ ScrollIdle /\ EditIdle /\ handleColumnDragStart("a")
  \/ handleColumnDrop("b")
  \/ QueryIdle /\ ScrollIdle /\ EditIdle /\ handleResizeStart("a", 0)
  \/ /\ IF resizeRef = << >> THEN TRUE ELSE NewWidth(resizeRef[1], 50) <= MaxWidth
     /\ handleResizeMove(50)
  \/ flushWidthUpdates
  \/ handleResizeEnd
  \/ /\ LayoutIdle /\ ScrollIdle /\ EditIdle /\ activeFilters = << >>
     /\ onDrillDown("a", Num(9))
  \/ QueryIdle /\ LayoutIdle /\ ScrollIdle /\ startEdit(1, "a")
  \/ handleCellEdit(1, "a", tSpX)
  \/ cancelEdit
  \/ \E n \in 1..Len(FrameAnswer) : applyCleaningSuggestion(n)

SpecFrame == InitLoaded /\ [][NextFrame]_vars

(* resize gestures on two columns, with the renders React makes of the
   queued width updates at any later time *)
ResizeXPositions == {n * 50 : n \in 0..MaxResizeSteps}

NextResize ==
  \/ Mount
  \/ handleFileUpload(FileA)
  \/ Len(datasets) < MaxResizeDatasets /\ readerOnload
  \/ setView("data")
  \/ \E col \in {"a", "b"}, pageX \in ResizeXPositions : handleResizeStart(col, pageX)
  \/ \E pageX \in ResizeXPositions :
       /\ IF resizeRef = << >> THEN TRUE
          ELSE NewWidth(resizeRef[1], pageX) <= MaxWidth
       /\ handleResizeMove(pageX)
  \/ flushWidthUpdates
  \/ handleResizeEnd

SpecResize == InitLoaded /\ [][NextResize]_vars

(* scrolling over a pipeline whose sort has more than one outcome *)
NextScroll ==
  \/ Mount
  \/ handleFileUpload(FileS)
  \/ Len(datasets) < MaxScrollDatasets /\ readerOnload
  \/ setView("data")
  \/ addNewFilter("b", "contains", tEmpty, tEmpty)
  \/ removeFilter(1)
  \/ \E q \in {tEmpty, tx} : setSearchQuery(q)
  \/ handleSort("a")
  \/ \E n \in 0..MaxScrollSteps : handleScroll(n * ROW_HEIGHT)
  \/ \E height \in {0, ROW_HEIGHT} : setTableContainerHeight(height)

SpecScroll == InitLoaded /\ [][NextScroll]_vars

(* the files a user can pick *)
Files == {FileA, FileB, FileC, FileD, FileL, FileS, BlankFile}

(* the whole application *)
Next ==
  \/ Mount
  \/ Reload
  \/ \E f \in Files : handleFileUpload(f)
  \/ readerOnload
  \/ \E v \in Views : setView(v)
  \/ \E column \in Columns, operator \in Operators, val1 \in Texts, val2 \in Texts :
       addNewFilter(column, operator, val1, val2)
  \/ \E id \in 1..MaxFilters : removeFilter(id)
  \/ clearAllFilters
  \/ \E q \in Texts : setSearchQuery(q)
  \/ \E pt \in ChartPoints : onDrillDown(pt[1], pt[2])
  \/ \E key \in Columns : handleSort(key)
  \/ \E offset \in ScrollOffsets : handleScroll(offset)
  \/ \E height \in Heights : setTableContainerHeight(height)
  \/ \E i \in RowTags, col \in Columns : startEdit(i, col)
  \/ \E i \in RowTags, col \in Columns, value \in Texts : handleCellEdit(i, col, value)
  \/ cancelEdit
  \/ \E col \in Columns : handleColumnDragStart(col)
  \/ \E col \in Columns : handleColumnDrop(col)
  \/ \E col \in Columns, pageX \in XPositions : handleResizeStart(col, pageX)
  \/ \E pageX \in XPositions : handleResizeMove(pageX)
  \/ flushWidthUpdates
  \/ handleResizeEnd
  \/ \E text \in {"", "q"} : setInput(text)
  \/ handleSendMessage
  \/ \E i \in 1..MaxInFlight, answer \in Answers : aiCallResolves(i, answer)
  \/ \E i \in 1..MaxInFlight : aiCallRejects(i)
  \/ \E n \in 1..MaxSuggestions : applyCleaningSuggestion(n)

Spec == Init /\ [][Next]_vars

---------------------------------------------------------------------------
(* Claims *)

(* a step that commits the edit in progress and changes the Row Store *)
CommitStep == editingCell # << >> /\ editingCell' = << >> /\ datasets' # datasets

(* C1: committing an edit on a row shown in the grid changes, in the Row
   Store, the row the user was editing (the row object drawn in the editing
   cell) and no other row, whatever the filters, search text and sort are. *)
C1_CommitChangesShownRow ==
  [][CommitStep =>
       LET before == ActiveRows(datasets, activeDatasetId)
           after == ActiveRows(datasets', activeDatasetId')
           edited == ShownRowRef(editingCell[1].rowIndex)
       IN /\ Len(after) = Len(before)
          /\ \A k \in 1..Len(before) : k # edited => after[k] = before[k]]_vars

(* C9: on start-up, a stored dataset list or session list that is missing or
   not parseable rehydrates to the empty list, and the start-up never ends
   in an error state. *)
C9_RehydrateDefaultsToEmpty ==
  [][(phase = "boot" /\ phase' # "boot") =>
       /\ phase' = "running"
       /\ stored.datasets.kind \in {"missing", "corrupt"} => datasets' = << >>
       /\ stored.sessions.kind \in {"missing", "corrupt"} => sessions' = << >>]_vars

Sorting == sortConfig.key # "" /\ sortConfig.direction # "none"

(* C4: with a sort column and a direction set, the comparator is a total
   order on the values of the sorted view (transitive and consistent for
   every triple, mixed numbers and strings included), and every pair of rows
   of the pipeline output is in comparator order. *)
C4_SortIsTotalOrder ==
  (phase = "running" /\ Sorting) =>
    LET rows == ActiveRows(datasets, activeDatasetId) IN
    /\ ConsistentOn(rows, processedRows, sortConfig)
    /\ \A i, j \in 1..Len(processedRows) :
         i < j => Comparator(rows[processedRows[i]], rows[processedRows[j]], sortConfig) <= 0

(* a filter on a column the active dataset does not have *)
OffDataset(f) ==
  /\ HasActive(datasets, activeDatasetId)
  /\ f.column \notin Range(ActiveOf(datasets, activeDatasetId).columns)

(* C5: while a filter is active whose column is not a column of the dataset,
   the pipeline output is empty, whatever the filter's operator and value. *)
C5_UnknownColumnMatchesNothing ==
  phase = "running" =>
    \A i \in 1..Len(activeFilters) : OffDataset(activeFilters[i]) => processedRows = << >>

(* a filter bound that is a number: a number, or a text that reads as one *)
NumericBound(v) ==
  \/ v.k = "num"
  \/ v.k = "str" /\ Trim(v.s) # << >> /\ ~IsNaNNumber(v)

NumericOperators == {"gt", "lt", "between"}

(* C6: gt, lt and between fail closed: a row in the pipeline output has a
   number in the column of every such filter, and every such filter's bound
   (and second bound, for between) is a number. *)
C6_ComparisonsFailClosed ==
  phase = "running" =>
    \A i \in 1..Len(activeFilters) : \A r \in Range(processedRows) :
      LET f == activeFilters[i] IN
      f.operator \in NumericOperators =>
        /\ Get(ActiveRows(datasets, activeDatasetId)[r], f.column).k = "num"
        /\ NumericBound(f.value)
        /\ f.operator = "between" => NumericBound(f.valueEnd)

(* C2: in every reachable state the window computed from the scroll offset
   and the container height satisfies
   0 <= startIndex <= endIndex <= totalRowCount. *)
C2_WindowWithinBounds ==
  phase = "running" =>
    LET startIndex == StartIndex(scrollTop)
        endIndex == EndIndex(Len(processedRows), scrollTop, tableContainerHeight)
    IN 0 <= startIndex /\ startIndex <= endIndex /\ endIndex <= Len(processedRows)

(* a step that ends a column drag by a drop on a header *)
DropStep == phase = "running" /\ dataTransfer # "" /\ dataTransfer' = ""

(* the order q with column x left out *)
Without(q, x) == LET Keep(c) == c # x IN SelectSeq(q, Keep)

(* C3: a drop of source S on target T leaves the column order unchanged when
   S equals T or S is not in the order; otherwise the new order has S at the
   index T had, holds the same columns, and keeps the relative order of the
   columns other than S. *)
C3_DropReordersOrNoOp ==
  [][DropStep =>
       LET S == dataTransfer IN
       IF S \notin Range(columnOrder) THEN columnOrder' = columnOrder
       ELSE \E T \in Range(columnOrder) :
              IF S = T THEN columnOrder' = columnOrder
              ELSE /\ Len(columnOrder') = Len(columnOrder)
                   /\ columnOrder'[IndexOf(columnOrder, T) + 1] = S
                   /\ Range(columnOrder') = Range(columnOrder)
                   /\ Without(columnOrder', S) = Without(columnOrder, S)]_vars

(* C7: at most one resize session with one listener pair is registered at
   any time, and no listener stays registered once no resize session is
   active. *)
C7_OneListenerPairPerGesture ==
  /\ Cardinality(listeners) <= 1
  /\ resizeRef = << >> => listeners = {}

(* C8: while an AI-service call is in flight the status is LOADING and the
   chat form takes no submission. *)
C8_BusyWhileInFlight ==
  inFlight # << >> => (status = "LOADING" /\ ~CanSubmit)

(* q is a rearrangement of the sequence cols, nothing repeated or missing *)
IsPermutationOf(q, cols) ==
  /\ Len(q) = Len(cols)
  /\ Range(q) = Range(cols)
  /\ \A i, j \in 1..Len(q) : q[i] = q[j] => i = j

(* a step that loads a dataset *)
LoadStep == Len(datasets') > Len(datasets)

(* C10: after any dataset loads and column drops the column order is a
   permutation of the active dataset's columns, and right after a load it
   is the dataset's canonical column order. *)
C10_OrderIsPermutationOfColumns ==
  [][(phase' = "running" /\ HasActive(datasets', activeDatasetId')) =>
       LET cols == ActiveOf(datasets', activeDatasetId').columns IN
       /\ IsPermutationOf(columnOrder', cols)
       /\ LoadStep => columnOrder' = cols]_vars

(* structural equality of two rows: the same value in every column *)
RowsEqual(r1, r2) == \A c \in (DOMAIN r1) \cup (DOMAIN r2) : Get(r1, c) = Get(r2, c)

(* the rows that have no structurally equal row before them, in their order *)
FirstOccurrences(rows) ==
  LET Keep(i) == \A j \in 1..(i - 1) : ~RowsEqual(rows[j], rows[i])
      kept == SelectSeq(Positions(rows), Keep)
  IN [k \in 1..Len(kept) |-> rows[kept[k]]]

(* a step that applies a suggestion of the given action type *)
CleaningStep(actionType) ==
  /\ inFlight' = inFlight
  /\ \E n \in 1..Len(cleaningSuggestions) :
       /\ cleaningSuggestions[n].actionType = actionType
       /\ Len(cleaningSuggestions') = Len(cleaningSuggestions) - 1
       /\ \A m \in 1..Len(cleaningSuggestions') :
            cleaningSuggestions'[m].id # cleaningSuggestions[n].id

(* C11: deduplicate keeps a row exactly when no earlier row of the Row Store
   is structurally equal to it on all columns: first occurrences stay, in
   their order, and no row is dropped for an earlier row that differs from
   it in some column (not-a-number, null and missing values included). *)
C11_DeduplicateKeepsFirstOccurrences ==
  [][CleaningStep("deduplicate") =>
       ActiveRows(datasets', activeDatasetId') =
         FirstOccurrences(ActiveRows(datasets, activeDatasetId))]_vars

(* the filters of the builder, as the records activeFilters holds *)
FilterChoices ==
  {[id |-> 1, column |-> f[1], operator |-> f[2], value |-> Str(f[3]), valueEnd |-> Str(f[4])] :
     f \in BuiltFilters}

(* the filter stage run on all rows of the active dataset *)
Filtered(filters) ==
  FilterStage(ActiveRows(datasets, activeDatasetId),
              Positions(ActiveRows(datasets, activeDatasetId)), filters)

(* the filter stage run on the view an earlier filter stage left *)
FilteredAgain(first, second) ==
  FilterStage(ActiveRows(datasets, activeDatasetId), Filtered(first), second)

(* C12: for any two filters A and B, filtering by A then by B gives the same
   rows in the same order as filtering by B then by A, and both equal the
   filter stage applied once with the filter list [A, B]. *)
C12_FilterConjunction ==
  phase = "running" =>
    \A A, B \in FilterChoices :
      /\ FilteredAgain(<<A>>, <<B>>) = FilteredAgain(<<B>>, <<A>>)
      /\ FilteredAgain(<<A>>, <<B>>) = Filtered(<<A, B>>)

(* C12 witness: a dataset is filtered, and two filters each drop a row the
   other keeps *)
C12_Witness ==
  /\ phase = "running"
  /\ Len(activeFilters) > 0
  /\ Len(processedRows) < Len(ActiveRows(datasets, activeDatasetId))
  /\ \E A, B \in FilterChoices :
       /\ Filtered(<<A, B>>) # Filtered(<<A>>)
       /\ Filtered(<<A, B>>) # Filtered(<<B>>)

(* C13: the sort stage is stable: two rows of the pipeline output whose sort
   keys compare equal are in the order they have in the filtered and
   searched input (the Row Store order), for ascending and descending. *)
C13_SortIsStable ==
  (phase = "running" /\ Sorting) =>
    LET rows == ActiveRows(datasets, activeDatasetId) IN
    \A p, q \in 1..Len(processedRows) :
      (p < q /\ Comparator(rows[processedRows[p]], rows[processedRows[q]], sortConfig) = 0)
        => processedRows[p] < processedRows[q]

(* the direction that follows d in the cycle of one column *)
CycleNext(d) == IF d = "none" THEN "asc" ELSE IF d = "asc" THEN "desc" ELSE "none"

(* C14: repeated sort requests on one column cycle the direction
   none -> asc -> desc -> none (the third leaves the filtered and searched
   order), and a request on another column than the current sort column
   yields asc on the new column, whatever the direction was. *)
C14_SortCycle ==
  [][sortConfig' # sortConfig =>
       /\ IF sortConfig'.key = sortConfig.key
          THEN sortConfig'.direction = CycleNext(sortConfig.direction)
          ELSE sortConfig'.direction = "asc"
       /\ sortConfig'.direction = "none" =>
            processedRows' =
              SearchStage(ActiveRows(datasets', activeDatasetId'),
                          Filtered(activeFilters'), searchQuery')]_vars

(* C14 witness: column b went through its whole cycle on a loaded dataset *)
C14_Witness ==
  /\ sortConfig = [key |-> "b", direction |-> "none"]
  /\ Len(processedRows) > 1

(* the window of the current state *)
WindowStart == StartIndex(scrollTop)
WindowEnd == EndIndex(Len(processedRows), scrollTop, tableContainerHeight)

(* row k (0-based) has a pixel of [k*rowHeight, (k+1)*rowHeight) within
   [scrollTop, scrollTop + containerHeight] *)
Intersects(k) ==
  /\ k * ROW_HEIGHT <= scrollTop + tableContainerHeight
  /\ (k + 1) * ROW_HEIGHT > scrollTop

(* C15: for a scroll offset within the content and any container height,
   every row of the ordered sequence whose pixel range intersects
   [s, s + containerHeight] has its index in [startIndex, endIndex) and is
   among the rendered rows. *)
C15_WindowCoversViewport ==
  (phase = "running" /\ scrollTop <= TotalContentHeight(Len(processedRows))) =>
    \A k \in 0..(Len(processedRows) - 1) :
      Intersects(k) =>
        /\ WindowStart <= k /\ k < WindowEnd
        /\ \E j \in 1..Len(Shown) :
             Shown[j].originalIndex = k /\ Shown[j].data = processedRows[k + 1]

(* C15 witness: the grid is scrolled so far that the window starts after the
   first row and ends before the last, with a row in the viewport *)
C15_Witness ==
  /\ phase = "running"
  /\ tableContainerHeight > 0
  /\ WindowStart > 0
  /\ WindowEnd < Len(processedRows)
  /\ \E k \in 0..(Len(processedRows) - 1) : Intersects(k)

(* C16: the number of rows materialized for rendering, endIndex - startIndex,
   never exceeds containerHeight / rowHeight + 2 * bufferCount. *)
C16_WindowSizeBound ==
  phase = "running" =>
    (WindowEnd - WindowStart) * ROW_HEIGHT
      <= tableContainerHeight + 2 * BUFFER_COUNT * ROW_HEIGHT

(* C16 as amended: endIndex - startIndex never exceeds
   ceil(containerHeight / rowHeight) + 1 + 2 * bufferCount. *)
C16_WindowSizeBoundRounded ==
  phase = "running" =>
    WindowEnd - WindowStart
      <= CeilDiv(tableContainerHeight, ROW_HEIGHT) + 1 + 2 * BUFFER_COUNT

(* C16 witness: a scroll offset between two row boundaries, where the window
   holds exactly the amended bound and more than the bound first claimed *)
C16_Witness ==
  /\ phase = "running"
  /\ WindowEnd - WindowStart
       = CeilDiv(tableContainerHeight, ROW_HEIGHT) + 1 + 2 * BUFFER_COUNT
  /\ (WindowEnd - WindowStart) * ROW_HEIGHT
       > tableContainerHeight + 2 * BUFFER_COUNT * ROW_HEIGHT

(* the cell of the edit in progress *)
EditPos == editingCell[1].rowIndex + 1
EditCol == editingCell[1].column

(* C17: a commit yields a Row Store that differs from the previous one only
   in the cell (position, column): the number of datasets, every other
   dataset, the row count, every other row and every other field of the
   edited row are unchanged, and the new cell value is the raw input coerced
   to a number when the cell held a number, the raw input itself otherwise. *)
C17_CommitFrame ==
  [][CommitStep =>
       LET before == ActiveRows(datasets, activeDatasetId)
           after == ActiveRows(datasets', activeDatasetId)
           old == Get(before[EditPos], EditCol)
       IN /\ activeDatasetId' = activeDatasetId
          /\ Len(datasets') = Len(datasets)
          /\ \A d \in 1..Len(datasets) :
               IF datasets[d].id # activeDatasetId
               THEN datasets'[d] = datasets[d]
               ELSE datasets'[d] = [datasets[d] EXCEPT !.rows = after]
          /\ Len(after) = Len(before)
          /\ \A k \in 1..Len(before) : k # EditPos => after[k] = before[k]
          /\ DOMAIN after[EditPos] = (DOMAIN before[EditPos]) \cup {EditCol}
          /\ \A c \in DOMAIN before[EditPos] :
               c # EditCol => after[EditPos][c] = before[EditPos][c]
          /\ \E raw \in EditInputs :
               after[EditPos][EditCol]
                 = IF IsNumberType(old) THEN ToNumber(Str(raw)) ELSE Str(raw)]_vars

(* C17 witness: the second of two datasets after commits of "5" to a numeric
   cell, now the number 5, and to a text cell, now the string "5" *)
C17_Witness ==
  /\ Len(datasets) = 2
  /\ editingCell = << >>
  /\ Len(ActiveRows(datasets, activeDatasetId)) = 3
  /\ Get(ActiveRows(datasets, activeDatasetId)[1], "a") = Num(5)
  /\ Get(ActiveRows(datasets, activeDatasetId)[2], "b") = Str(t5)

(* the Row Store after one commit of raw to the cell of the edit in progress *)
CommittedOnce(raw) ==
  EditedDatasets(datasets, activeDatasetId, editingCell[1].rowIndex, EditCol, Str(raw))

(* the Row Store after a second commit of raw to the same cell *)
CommittedTwice(raw) ==
  EditedDatasets(CommittedOnce(raw), activeDatasetId, editingCell[1].rowIndex,
                 EditCol, Str(raw))

(* C18: committing the same raw value twice to the same cell yields the same
   Row Store, and the same stored copy, as committing it once, for numeric
   and text cells and for inputs that do not parse as a number. *)
C18_CommitIdempotent ==
  (phase = "running" /\ editingCell # << >> /\ activeDatasetId # 0) =>
    \A raw \in EditInputs :
      /\ CommittedTwice(raw) = CommittedOnce(raw)
      /\ Persist(CommittedTwice(raw), sessions) = Persist(CommittedOnce(raw), sessions)

(* C18 witness: an edit in progress on a numeric cell of the second dataset,
   where a commit of a text that is no number changes the Row Store *)
C18_Witness ==
  /\ phase = "running"
  /\ Len(datasets) = 2
  /\ editingCell # << >>
  /\ IsNumberType(Get(ActiveRows(datasets, activeDatasetId)[EditPos], EditCol))
  /\ CommittedOnce(tx) # datasets
  /\ Get(ActiveRows(CommittedOnce(tx), activeDatasetId)[EditPos], EditCol) = NaN

(* the inputs the grid draws: <<k, c>> for the k-th drawn row and the c-th
   column when isEditing holds for that cell *)
EditingInputs ==
  {kc \in (1..Len(Shown)) \X (1..Len(columnOrder)) :
     /\ view = "data"
     /\ editingCell # << >>
     /\ editingCell[1].rowIndex = Shown[kc[1]].originalIndex
     /\ editingCell[1].column = columnOrder[kc[2]]}

(* C19: at most one cell is in edit mode at any time, and Escape on the
   editing cell returns the grid to the no-edit state with the Row Store, its
   stored copy and the pipeline's rows exactly as they were. *)
C19_CancelRestores ==
  /\ [](Len(editingCell) <= 1 /\ Cardinality(EditingInputs) <= 1)
  /\ [][cancelEdit =>
          /\ editingCell' = << >>
          /\ EditingInputs' = {}
          /\ datasets' = datasets
          /\ stored' = stored
          /\ processedRows' = processedRows]_vars

(* C19 witness: the grid after an edit of a cell whose stored value differs
   from every text of the inputs, still in edit mode with its one input *)
C19_Witness ==
  /\ phase = "running"
  /\ Cardinality(EditingInputs) = 1
  /\ Len(datasets) = 2
  /\ Get(ActiveRows(datasets, activeDatasetId)[EditPos], EditCol) = Num(10)

(* the action types of a cleaning suggestion and the columns they name *)
ActionTypes == {"remove_nulls", "deduplicate", "normalize", "convert_types"}
CleaningColumns == {"a", "b"}

(* the Row Store after one cleaning action on the active dataset, and after
   the same action once more *)
CleanedOnce(actionType, column) ==
  CleanedDatasets(datasets, activeDatasetId,
                  [actionType |-> actionType, column |-> column])
CleanedTwice(actionType, column) ==
  CleanedDatasets(CleanedOnce(actionType, column), activeDatasetId,
                  [actionType |-> actionType, column |-> column])

(* C20: for any Row Store and target column, applying remove-nulls,
   deduplicate, normalize or convert-types twice in a row gives the same Row
   Store, and the same stored copy, as applying it once. *)
C20_CleaningIdempotent ==
  (phase = "running" /\ activeDatasetId # 0) =>
    \A actionType \in ActionTypes, column \in CleaningColumns :
      /\ CleanedTwice(actionType, column) = CleanedOnce(actionType, column)
      /\ Persist(CleanedTwice(actionType, column), sessions)
           = Persist(CleanedOnce(actionType, column), sessions)

(* C20 witness: a cleaning action has been applied to the dataset, whose
   column a holds a text with blanks in front that a normalize would trim *)
C20_Witness ==
  /\ phase = "running"
  /\ activeDatasetId # 0
  /\ Len(cleaningSuggestions) \in 1..(MaxSuggestions - 1)
  /\ \E i \in 1..Len(ActiveRows(datasets, activeDatasetId)) :
       Get(ActiveRows(datasets, activeDatasetId)[i], "a") = Str(tSpX)
  /\ CleanedOnce("normalize", "a") # datasets

(* a step of onDrillDown: a chart click, in a view that shows charts, that
   sets the filter list *)
DrillStep == view \in {"chat", "dashboard"} /\ activeFilters' # activeFilters

(* C21: a drill-down on (column, value) appends exactly one new filter with
   operator equals on (column, value) to the end of the filter list, leaves
   every existing filter present and unchanged, leaves the search text, the
   sort and the Row Store unchanged, and switches the view to the data
   grid. *)
C21_DrillDownAppends ==
  [][DrillStep =>
       LET n == Len(activeFilters) IN
       /\ Len(activeFilters') = n + 1
       /\ SubSeq(activeFilters', 1, n) = activeFilters
       /\ activeFilters'[n + 1].operator = "equals"
       /\ \E pt \in ChartPoints :
            /\ activeFilters'[n + 1].column = pt[1]
            /\ activeFilters'[n + 1].value = pt[2]
       /\ \A i \in 1..n : activeFilters[i].id # activeFilters'[n + 1].id
       /\ searchQuery' = searchQuery
       /\ sortConfig' = sortConfig
       /\ datasets' = datasets
       /\ stored' = stored
       /\ view' = "data"]_vars

(* C21 witness: the data grid after a drill-down made over a filter of the
   builder, a search text and a sort *)
C21_Witness ==
  /\ view = "data"
  /\ Len(activeFilters) = 2
  /\ activeFilters[1].operator # "equals"
  /\ activeFilters[2] = [id |-> 2, column |-> "a", operator |-> "equals",
                         value |-> Num(9), valueEnd |-> Undef]
  /\ searchQuery # << >>
  /\ sortConfig.direction = "asc"

(* two characters that differ at most by case *)
SameLetter(c, d) ==
  \/ c = d
  \/ c \in 65..90 /\ d = c + 32
  \/ d \in 65..90 /\ c = d + 32

(* sub occurs in t when case is ignored *)
ContainsIgnoringCase(t, sub) ==
  \E k \in 0..(Len(t) - Len(sub)) :
    \A j \in 1..Len(sub) : SameLetter(t[k + j], sub[j])

(* the Row Store positions the pipeline's output must hold *)
Matching ==
  LET rows == ActiveRows(datasets, activeDatasetId) IN
  {i \in 1..Len(rows) :
     /\ \A n \in 1..Len(activeFilters) : FilterPass(rows[i], activeFilters[n])
     /\ searchQuery # << >> =>
          \E c \in DOMAIN rows[i] : ContainsIgnoringCase(StringOf(rows[i][c]), searchQuery)}

(* C22: with a search text, a row is in the pipeline's output if and only if
   it satisfies every active filter and the string of one of its fields
   contains the search text, case ignored; without one the output is the
   filtered set.  No row is in the output twice. *)
C22_SearchNarrowsFiltered ==
  phase = "running" =>
    /\ Range(processedRows) = Matching
    /\ Len(processedRows) = Cardinality(Matching)
    /\ searchQuery = << >> => Range(processedRows) = Range(Filtered(activeFilters))

(* C22 witness: a filter and an upper-case search text that each drop a row
   the other keeps *)
C22_Witness ==
  /\ phase = "running"
  /\ Len(activeFilters) > 0
  /\ searchQuery = tUpperX
  /\ Filtered(activeFilters) # << >>
  /\ \E i \in Range(Filtered(activeFilters)) : i \notin Range(processedRows)
  /\ \E i \in Range(SearchStage(ActiveRows(datasets, activeDatasetId),
                               Positions(ActiveRows(datasets, activeDatasetId)),
                               searchQuery)) : i \notin Range(processedRows)

(* the kinds of step that write rows: the commit of the edit in progress,
   and a cleaning action of one of the given types *)
CommitKind == editingCell # << >> /\ editingCell' = << >>
CleaningKind(types) == \E actionType \in types : CleaningStep(actionType)

(* a step of a view-only gesture: the filters, the search text, the sort, the
   scroll offset, the column order or a column width change, and no dataset
   is added *)
ViewOnlyStep ==
  /\ Len(datasets') = Len(datasets)
  /\ \/ activeFilters' # activeFilters
     \/ searchQuery' # searchQuery
     \/ sortConfig' # sortConfig
     \/ scrollTop' # scrollTop
     \/ columnOrder' # columnOrder
     \/ columnWidths' # columnWidths

(* C23: the rows of a dataset change only through cell commits and bulk
   cleaning actions, and their count only through remove-nulls and
   deduplicate; filter, search, sort, scroll, column reorder and resize and
   drill-down steps leave every dataset unchanged. *)
C23_RowStoreWriters ==
  [][/\ Len(datasets') >= Len(datasets)
     /\ \A d \in 1..Len(datasets) :
          /\ datasets'[d].id = datasets[d].id
          /\ datasets'[d].columns = datasets[d].columns
          /\ datasets'[d].rows # datasets[d].rows =>
               /\ datasets[d].id = activeDatasetId
               /\ CommitKind \/ CleaningKind(ActionTypes)
          /\ Len(datasets'[d].rows) # Len(datasets[d].rows) =>
               CleaningKind({"remove_nulls", "deduplicate"})
     /\ ViewOnlyStep => (datasets' = datasets /\ stored' = stored)]_vars

(* C23 witness: a dataset that lost rows to remove-nulls and holds a
   committed text, with a filter, a search text and a sort set over it and a
   column width changed *)
C23_Witness ==
  /\ phase = "running"
  /\ Len(datasets) = 2
  /\ Len(ActiveRows(datasets, activeDatasetId)) = 1
  /\ \E i \in 1..Len(datasets[1].rows) : Get(datasets[1].rows[i], "a") = Str(tSpX)
  /\ activeFilters # << >>
  /\ searchQuery # << >>
  /\ sortConfig.direction # "none"
  /\ columnWidths # NoWidths

(* a render that processes the queued width updates *)
FlushStep == widthUpdates # << >> /\ widthUpdates' = << >>

(* C24: after every pointer move to x of a resize gesture on column c, the
   width of c is max(80, startWidth + (x - startX)) for the startX and
   startWidth of that gesture, the widths of the other columns are
   unchanged, and no stored width is below 80. *)
C24_WidthFollowsPointer ==
  [][FlushStep =>
       /\ phase' = "running"
       /\ resizeRef # << >>
       /\ \E x \in ResizeXPositions :
            columnWidths' = SetWidth(columnWidths, resizeRef[1].col,
                                     NewWidth(resizeRef[1], x))
       /\ columnWidths'[resizeRef[1].col] = widthUpdates[Len(widthUpdates)]
       /\ \A c \in DOMAIN columnWidths' : columnWidths'[c] >= MinWidth]_vars

(* C28: the render that processes the queued width updates never reads a
   cleared resize session, whatever was handled since the pointer moves that
   queued them: it finds a session, sets the width of that session's column
   and does not fail. *)
C28_QueuedUpdateKeepsSession ==
  [][FlushStep =>
       /\ resizeRef # << >>
       /\ phase' # "crashed"
       /\ resizeRef[1].col \in DOMAIN columnWidths']_vars

(* what the pipeline is memoized on: the active dataset, the filters, the
   search text and the sort configuration *)
PipelineInputs ==
  <<activeDatasetId, ActiveRows(datasets, activeDatasetId), activeFilters,
    searchQuery, sortConfig>>

(* C25: a scroll event changes only the scroll offset and the window derived
   from it; the pipeline's output stays the one computed before, and changes
   only on a step that changes the active dataset, the filters, the search
   text or the sort configuration. *)
C25_ScrollKeepsPipeline ==
  [][/\ scrollTop' # scrollTop =>
          /\ processedRows' = processedRows
          /\ PipelineInputs' = PipelineInputs
          /\ UNCHANGED <<tableContainerHeight, datasets, stored, view, editingCell,
                         columnOrder, columnWidths, cleaningSuggestions>>
          /\ Shown' = VisibleRows(processedRows, scrollTop', tableContainerHeight)
     /\ processedRows' # processedRows => PipelineInputs' # PipelineInputs]_vars

(* C25 witness: the grid scrolled down over rows in an order that another
   run of the sort could give differently *)
C25_Witness ==
  /\ phase = "running"
  /\ scrollTop > 0
  /\ sortConfig.direction = "asc"
  /\ Len(processedRows) = 4
  /\ Cardinality(Pipeline(ActiveRows(datasets, activeDatasetId), activeFilters,
                          searchQuery, sortConfig)) > 1

(* the pixel offset, inside the spacer, of the j-th row of the translated
   table: rows of rowHeight under a translation of offsetTop *)
DrawnAt(j) == OffsetTop(scrollTop) + (j - 1) * ROW_HEIGHT

(* C26: the rendered slice is orderedRows[startIndex:endIndex] with the
   consecutive tags startIndex..endIndex-1, translated by startIndex *
   rowHeight inside a spacer of totalRowCount * rowHeight, so the row with
   tag k is drawn at k * rowHeight; 1000 rows, container height 650 and
   scroll offset 1300 give startIndex 15, endIndex 35 and offsetTop 975. *)
C26_SliceAtTruePosition ==
  phase = "running" =>
    /\ Len(Shown) = Max(0, Min(WindowEnd, Len(processedRows)) - WindowStart)
    /\ \A j \in 1..Len(Shown) :
         /\ Shown[j].originalIndex = WindowStart + j - 1
         /\ Shown[j].data = processedRows[WindowStart + j]
         /\ DrawnAt(j) = Shown[j].originalIndex * ROW_HEIGHT
         /\ DrawnAt(j) + ROW_HEIGHT <= TotalContentHeight(Len(processedRows))
    /\ TotalContentHeight(Len(processedRows)) = Len(processedRows) * ROW_HEIGHT
    /\ StartIndex(1300) = 15
    /\ EndIndex(1000, 1300, 650) = 35
    /\ OffsetTop(1300) = 975

(* C26 witness: a window that starts after the first row, its first drawn
   row translated down to its place in the spacer *)
C26_Witness ==
  /\ phase = "running"
  /\ Len(Shown) > 1
  /\ Shown[1].originalIndex > 0
  /\ DrawnAt(1) > 0
  /\ DrawnAt(1) <= scrollTop

(* C27: every cleaning suggestion offered to the user was computed from the
   active dataset, the one applying it modifies: after any interleaving of
   uploads and answers, the dataset whose summary and sample rows were sent
   for a suggestion in the list is the active one, and the call an upload
   makes is for the dataset it loaded. *)
C27_SuggestionsForActiveDataset ==
  /\ \A i \in 1..Len(cleaningSuggestions) :
       cleaningSuggestions[i].dataset = activeDatasetId
  /\ \A i \in 1..Len(inFlight) :
       inFlight[i].kind = "suggest" => inFlight[i].dataset = activeDatasetId

====
